---- MODULE Spec2Model ----
(***************************************************************************)
(* Two operational scripts of clever-widget-factory:                       *)
(*   Script A  scripts/generate-db-diagram.py  (schema -> Mermaid ERD)     *)
(*   Script B  scripts/test_db_connection.py   (connectivity check)       *)
(* Each script is modelled statement by statement as a state machine; the  *)
(* outside world (the Lambda function, the aws CLI, the result file, the   *)
(* PostgreSQL server, the .env.db file) is a nondeterministic environment. *)
(***************************************************************************)
EXTENDS Integers, Sequences, FiniteSets, TLC

VARIABLES
    \* ---- Script B ----
    envfile,    \* the values .env.db / the environment define (Unset = not defined)
    kwargs,     \* conn_kwargs, the keyword arguments handed to psycopg2.connect
    bpc,        \* position of Script B
    conn,       \* the name conn: "unbound", "open", "closed" or "broken"
    btrace,     \* library calls and prints of Script B, in program order
    pending,    \* the fault propagating out of the try block (NoFault = none)
    suppressed, \* faults swallowed by except Exception: pass
    \* ---- Script A ----
    fixture,    \* rows the database yields for each query (the remote schema)
    file,       \* contents of /tmp/db-query-result.json
    apc,        \* position of each run of Script A
    stage,      \* the query a run is working on: "tables" or "rels"
    sent,       \* per run, the --payload arguments passed to aws lambda invoke
    result,     \* per run, the return code subprocess.run last put in result
    got,        \* per run, the locals tables and relationships: what run_query
                \* returned for each query, and whose response that was
    out,        \* per run, the lines printed so far
    afault      \* per run, the unhandled fault that terminated it (NoFault = none)

bvars == <<envfile, kwargs, bpc, conn, btrace, pending, suppressed>>
avars == <<fixture, file, apc, stage, sent, result, got, out, afault>>
vars == <<envfile, kwargs, bpc, conn, btrace, pending, suppressed,
          fixture, file, apc, stage, sent, result, got, out, afault>>

Unset == "<unset>"
NoFault == "<none>"

(***************************************************************************)
(*                              Script B                                   *)
(***************************************************************************)

\* os.getenv(name): the value, or None when the name is not defined
getenv(name) == envfile[name]

\* os.getenv(name, default)
getenv_default(name, default) ==
    IF envfile[name] = Unset THEN default ELSE envfile[name]

\* Python truthiness of an optional string: None and '' are falsy
Truthy(s) == s # Unset /\ s # ""

\* lines 14-25: the dict literal, then the optional hostaddr entry
conn_kwargs ==
    LET base == [user     |-> getenv("user"),
                 password |-> getenv("password"),
                 host     |-> getenv("host"),
                 port     |-> getenv_default("port", "5432"),
                 dbname   |-> getenv_default("dbname", "postgres"),
                 sslmode  |-> "require"]
    IN  IF Truthy(getenv("hostaddr"))
        THEN [k \in DOMAIN base \cup {"hostaddr"} |->
                 IF k = "hostaddr" THEN getenv("hostaddr") ELSE base[k]]
        ELSE base

\* The values .env.db may hold
EnvFiles ==
    [user : {"app"}, password : {"good", "bad"}, host : {"db.example"},
     hostaddr : {Unset, "", "::1"}, port : {Unset, "6543"},
     dbname : {Unset, "cwf"}]

\* What the server answers to a connection attempt with these arguments
CredentialsValid(kw) == kw.user = "app" /\ kw.password = "good"

Call(op) == [op |-> op, arg |-> ""]
PrintEv(text) == [op |-> "print", arg |-> text]

InitB ==
    /\ envfile \in EnvFiles
    /\ kwargs = [unset |-> Unset]
    /\ bpc = "load"
    /\ conn = "unbound"
    /\ btrace = <<>>
    /\ pending = NoFault
    /\ suppressed = <<>>

\* lines 5-25
LoadConfig ==
    /\ bpc = "load"
    /\ kwargs' = conn_kwargs
    /\ bpc' = "connect"
    /\ UNCHANGED <<envfile, conn, btrace, pending, suppressed>>
    /\ UNCHANGED avars

\* line 28: conn = psycopg2.connect(**conn_kwargs)
Connect ==
    /\ bpc = "connect"
    /\ \E reachable \in BOOLEAN :
         IF reachable /\ CredentialsValid(kwargs)
         THEN /\ conn' = "open"
              /\ btrace' = Append(btrace, Call("connect"))
              /\ bpc' = "print_ok"
              /\ UNCHANGED pending
         ELSE /\ pending' = "OperationalError"
              /\ btrace' = Append(btrace, Call("connect_failed"))
              /\ bpc' = "finally"
              /\ UNCHANGED conn
    /\ UNCHANGED <<envfile, kwargs, suppressed>>
    /\ UNCHANGED avars

\* a success message printed twice
PrintSuccessTwice ==
    /\ bpc = "print_ok"
    /\ btrace' = Append(Append(btrace, PrintEv("Connection successful!")),
                        PrintEv("Connection successful!"))
    /\ bpc' = "execute"
    /\ UNCHANGED <<envfile, kwargs, conn, pending, suppressed>>
    /\ UNCHANGED avars

\* line 29
PrintSuccess ==
    /\ bpc = "print_ok"
    /\ btrace' = Append(btrace, PrintEv("Connection successful!"))
    /\ bpc' = "execute"
    /\ UNCHANGED <<envfile, kwargs, conn, pending, suppressed>>
    /\ UNCHANGED avars

\* lines 30-31: with conn.cursor() as cur: cur.execute('SELECT NOW();')
Execute ==
    /\ bpc = "execute"
    /\ \E ok \in BOOLEAN :
         IF ok
         THEN /\ btrace' = Append(btrace, [op |-> "execute", arg |-> "SELECT NOW();"])
              /\ bpc' = "fetch"
              /\ UNCHANGED pending
         ELSE /\ btrace' = Append(btrace, Call("execute_failed"))
              /\ pending' = "DatabaseError"
              /\ bpc' = "finally"
    /\ UNCHANGED <<envfile, kwargs, conn, suppressed>>
    /\ UNCHANGED avars

\* line 32: print('Current Time:', cur.fetchone())
PrintTime ==
    /\ bpc = "fetch"
    /\ btrace' = Append(Append(btrace, Call("fetchone")),
                        PrintEv("Current Time: (timestamp,)"))
    /\ bpc' = "finally"
    /\ UNCHANGED <<envfile, kwargs, conn, pending, suppressed>>
    /\ UNCHANGED avars

\* a cleanup whose own fault takes the place of the pending one
SuppressReplacing(fault) ==
    /\ pending' = fault
    /\ UNCHANGED suppressed

\* what except Exception: pass does with a fault raised inside the inner try
Suppress(fault) ==
    /\ suppressed' = Append(suppressed, fault)
    /\ UNCHANGED pending

\* a cleanup that catches database errors only, so the NameError escapes
CloseUnboundUncaught ==
    /\ bpc = "finally"
    /\ conn = "unbound"
    /\ pending' = "NameError"
    /\ bpc' = "end"
    /\ UNCHANGED <<envfile, kwargs, conn, btrace, suppressed>>
    /\ UNCHANGED avars

\* lines 33-38 when the name conn was never bound: conn.close() is a NameError
CloseUnbound ==
    /\ bpc = "finally"
    /\ conn = "unbound"
    /\ Suppress("NameError")
    /\ bpc' = "end"
    /\ UNCHANGED <<envfile, kwargs, conn, btrace>>
    /\ UNCHANGED avars

\* lines 33-38 with a connection: close it, print only if close returned
CloseConn ==
    /\ bpc = "finally"
    /\ conn = "open"
    /\ \E ok \in BOOLEAN :
         IF ok
         THEN /\ conn' = "closed"
              /\ btrace' = Append(Append(btrace, Call("close")),
                                  PrintEv("Connection closed."))
              /\ UNCHANGED <<pending, suppressed>>
         ELSE /\ conn' = "broken"
              /\ btrace' = Append(btrace, Call("close_failed"))
              /\ Suppress("InterfaceError")
    /\ bpc' = "end"
    /\ UNCHANGED <<envfile, kwargs>>
    /\ UNCHANGED avars

NextB ==
    \/ LoadConfig
    \/ Connect
    \/ PrintSuccess
    \/ Execute
    \/ PrintTime
    \/ CloseUnbound
    \/ CloseConn

(***************************************************************************)
(*                              Script A                                   *)
(***************************************************************************)

\* Bounds of the fixtures
MaxRows == 2

TABLES_QUERY == "TABLES_QUERY"
RELATIONSHIPS_QUERY == "RELATIONSHIPS_QUERY"

\* json.dumps / json.loads: a JSON text is a value of its own kind, which
\* denotes an object only when it is well formed
JsonDumps(obj) == [valid |-> TRUE, val |-> obj]
NotJson == [valid |-> FALSE, val |-> <<>>]
JsonLoads(text) == text.val

\* JSON scalars keep their type: the string "YES" is not the boolean true
Str(s) == [t |-> "str", v |-> s]
Bool(b) == [t |-> "bool", v |-> IF b THEN "true" ELSE "false"]
\* a list held as a list, or as the JSON text of a list (line 86)
AsList(cols) == [isstr |-> FALSE, list |-> cols, text |-> NotJson]
AsText(cols) == [isstr |-> TRUE, list |-> <<>>, text |-> JsonDumps(cols)]

\* Python truthiness of a JSON scalar
TruthyJson(x) ==
    \/ x.t = "bool" /\ x.v = "true"
    \/ x.t = "str" /\ x.v # ""

\* dict.get(key) of a column descriptor: None (falsy) when the key is missing
GetTruthy(col, key) == key \in DOMAIN col /\ TruthyJson(col[key])

\* an f-string: the pieces joined, empty pieces leaving no trace
FString(pieces) == SelectSeq(pieces, LAMBDA s : s # "")

\* line 91
pk_str(col) == IF GetTruthy(col, "is_pk") THEN " PK" ELSE ""

\* NOT NULL decided by comparing with 'NO' instead
null_str_no(col) == IF col["nullable"] = Str("NO") THEN " NOT NULL" ELSE ""

\* line 92
null_str(col) == IF col["nullable"] = Str("YES") THEN "" ELSE " NOT NULL"

\* lines 90-93: the line of one column, or a KeyError before anything is printed
ColumnLine(col) ==
    IF {"type", "nullable", "column"} \subseteq DOMAIN col
    THEN [ok |-> TRUE,
          line |-> FString(<<"    ", col["type"], " ", col["column"],
                             pk_str(col), null_str(col)>>)]
    ELSE [ok |-> FALSE, line |-> <<>>]

\* lines 89-93: the lines of the columns, up to the first fault
RECURSIVE ColumnLines(_)
ColumnLines(cols) ==
    IF cols = <<>> THEN [ok |-> TRUE, lines |-> <<>>]
    ELSE LET first == ColumnLine(Head(cols))
         IN  IF ~first.ok THEN [ok |-> FALSE, lines |-> <<>>]
             ELSE LET rest == ColumnLines(Tail(cols))
                  IN  [ok |-> rest.ok, lines |-> <<first.line>> \o rest.lines]

\* line 86
ColumnsOf(table) ==
    IF table["columns"].isstr THEN JsonLoads(table["columns"].text)
    ELSE table["columns"].list

\* lines 85-94: the block of one table
EntityBlock(table) ==
    IF ~({"table_name", "columns"} \subseteq DOMAIN table)
    THEN [ok |-> FALSE, lines |-> <<>>]
    ELSE LET head == FString(<<"  ", table["table_name"], " {">>)
             body == ColumnLines(ColumnsOf(table))
         IN  IF body.ok
             THEN [ok |-> TRUE, lines |-> <<head>> \o body.lines \o <<FString(<<"  }">>)>>]
             ELSE [ok |-> FALSE, lines |-> <<head>> \o body.lines]

\* a loop that stops after its first row
TableLinesFirstOnly(tables) ==
    IF tables = <<>> THEN [ok |-> TRUE, lines |-> <<>>]
    ELSE EntityBlock(Head(tables))

\* lines 84-94: the loop over the rows of the tables query
RECURSIVE TableLines(_)
TableLines(tables) ==
    IF tables = <<>> THEN [ok |-> TRUE, lines |-> <<>>]
    ELSE LET first == EntityBlock(Head(tables))
         IN  IF ~first.ok THEN first
             ELSE LET rest == TableLines(Tail(tables))
                  IN  [ok |-> rest.ok, lines |-> first.lines \o rest.lines]

\* the two ends of the edge exchanged
RelationshipLineSwapped(rel) ==
    IF {"from_table", "to_table", "from_column"} \subseteq DOMAIN rel
    THEN [ok |-> TRUE,
          lines |-> <<FString(<<"  ", rel["from_table"], " ||--o{ ",
                               rel["to_table"], " : ", rel["from_column"]>>)>>]
    ELSE [ok |-> FALSE, lines |-> <<>>]

\* lines 101-104: the line of one relationship
RelationshipLine(rel) ==
    IF {"from_table", "to_table", "from_column"} \subseteq DOMAIN rel
    THEN [ok |-> TRUE,
          lines |-> <<FString(<<"  ", rel["to_table"], " ||--o{ ",
                               rel["from_table"], " : ", rel["from_column"]>>)>>]
    ELSE [ok |-> FALSE, lines |-> <<>>]

\* lines 100-104: the loop over the rows of the relationships query
RECURSIVE RelationshipLines(_)
RelationshipLines(rels) ==
    IF rels = <<>> THEN [ok |-> TRUE, lines |-> <<>>]
    ELSE LET first == RelationshipLine(Head(rels))
         IN  IF ~first.ok THEN first
             ELSE LET rest == RelationshipLines(Tail(rels))
                  IN  [ok |-> rest.ok, lines |-> first.lines \o rest.lines]

\* three backquotes, the fence of a Markdown code block
Fence == "<fence>"

\* lines 76-78: the first print ends two lines, its text and an empty one
HeaderLines ==
    << <<"# Database Schema Diagram">>, <<>>, <<Fence, "mermaid">>, <<"erDiagram">> >>

\* line 106
ClosingFence == <<Fence>>

\* ---- the rows the database can hold ----

Column(type, name, nullable, is_pk) ==
    [type |-> type, column |-> name, nullable |-> nullable, is_pk |-> is_pk]
\* a descriptor whose is_pk key is absent
ColumnNoPk(type, name, nullable) ==
    [type |-> type, column |-> name, nullable |-> nullable]
\* a descriptor whose type key is absent
ColumnNoType(name, nullable) == [column |-> name, nullable |-> nullable]

TableRow(name, cols) == [table_name |-> name, columns |-> cols]
Relationship(from, to, col) ==
    [from_table |-> from, to_table |-> to, from_column |-> col]

Nullables == <<Str("YES"), Str("NO"), Bool(TRUE), Bool(FALSE)>>

\* every descriptor: each nullability with is_pk true, false and absent
AllColumns ==
    [i \in 1..(3 * Len(Nullables)) |->
        LET n == Nullables[((i - 1) % Len(Nullables)) + 1]
            k == (i - 1) \div Len(Nullables)
        IN  IF k = 0 THEN Column("integer", "id", n, Bool(TRUE))
            ELSE IF k = 1 THEN Column("text", "name", n, Bool(FALSE))
            ELSE ColumnNoPk("uuid", "ref", n)]

TableNames == {"users", "orders"}

ColumnLists == {<<>>, <<Column("integer", "id", Str("NO"), Bool(TRUE))>>, AllColumns}

TableRows ==
    {TableRow(n, AsList(cl)) : n \in TableNames, cl \in ColumnLists}
        \cup {TableRow("users", AsText(AllColumns)),
              TableRow("orders", AsList(<<ColumnNoType("id", Str("NO"))>>))}

RelationshipRows ==
    {Relationship("orders", "users", "user_id"),
     Relationship("users", "users", "parent_id")}

\* the sequences over S of length at most n
SeqsUpTo(S, n) == UNION {[1..k -> S] : k \in 0..n}

NoTables == <<>>
NoRelationships == <<>>
OneTable == <<TableRow("users", AsList(<<Column("integer", "id", Str("NO"), Bool(TRUE))>>))>>
OneRelationship == <<Relationship("orders", "users", "user_id")>>

\* fixtures that cover the renderer: any rows up to MaxRows for one query
RichFixtures ==
    {[tables |-> t, rels |-> r] :
        t \in SeqsUpTo(TableRows, MaxRows), r \in {NoRelationships, OneRelationship}}
    \cup
    {[tables |-> t, rels |-> r] :
        t \in {NoTables, OneTable}, r \in SeqsUpTo(RelationshipRows, MaxRows)}

\* fixtures for the runs that share the result file
SmallFixtures ==
    {[tables |-> NoTables, rels |-> NoRelationships],
     [tables |-> OneTable, rels |-> OneRelationship],
     [tables |-> <<TableRow("orders", AsList(<<ColumnNoType("id", Str("NO"))>>))>>,
      rels |-> NoRelationships]}

\* ---- the remote function and the result file ----

Runs == {1, 2}

Invocation(r, q) == [run |-> r, q |-> q]
\* an invocation made before any of the modelled runs started
Earlier == Invocation(0, "rels")

NoFile == [exists |-> FALSE, by |-> Earlier, resp |-> [none |-> ""]]
FileOf(id, resp) == [exists |-> TRUE, by |-> id, resp |-> resp]

\* the handler of cwf-db-migration: runs the sql of the payload on the database
LambdaRows(payload) ==
    IF JsonLoads(payload).sql = TABLES_QUERY THEN fixture.tables ELSE fixture.rels

\* the responses the invoke command can write to the result file
Response(outcome, payload) ==
    CASE outcome = "rows" ->
            [statusCode |-> "200", body |-> JsonDumps([rows |-> LambdaRows(payload)])]
      [] outcome = "norows" ->
            [statusCode |-> "500", body |-> JsonDumps([error |-> "query failed"])]
      [] outcome = "nobody" ->
            [errorMessage |-> "task timed out"]
      [] outcome = "badbody" ->
            [statusCode |-> "200", body |-> NotJson]

WritingOutcomes == {"rows", "norows", "nobody", "badbody"}

\* ---- run_query ----

QueryOf(st) == IF st = "tables" THEN TABLES_QUERY ELSE RELATIONSHIPS_QUERY

\* line 53
Payload(query) == JsonDumps([sql |-> query])

\* rows looked up in the response itself instead of in its body
ReadResultTopLevel(f) ==
    IF ~f.exists THEN [ok |-> FALSE, fault |-> "FileNotFoundError", rows |-> <<>>]
    ELSE [ok |-> TRUE, fault |-> NoFault,
          rows |-> IF "rows" \in DOMAIN f.resp THEN f.resp.rows ELSE <<>>]

\* lines 67-72: what run_query makes of the result file as it finds it
ReadResult(f) ==
    IF ~f.exists THEN [ok |-> FALSE, fault |-> "FileNotFoundError", rows |-> <<>>]
    ELSE IF "body" \in DOMAIN f.resp
    THEN IF ~f.resp.body.valid
         THEN [ok |-> FALSE, fault |-> "JSONDecodeError", rows |-> <<>>]
         ELSE LET body == JsonLoads(f.resp.body)
              IN  [ok |-> TRUE, fault |-> NoFault,
                   rows |-> IF "rows" \in DOMAIN body THEN body.rows ELSE <<>>]
    ELSE [ok |-> TRUE, fault |-> NoFault, rows |-> <<>>]

NoResult == [rows |-> <<>>, by |-> Earlier, returned |-> FALSE]
\* result is not assigned yet
NoReturnCode == -1

InitRuns(active) ==
    /\ apc = [r \in Runs |-> IF r \in active THEN "start" ELSE "absent"]
    /\ stage = [r \in Runs |-> "tables"]
    /\ sent = [r \in Runs |-> <<>>]
    /\ result = [r \in Runs |-> NoReturnCode]
    /\ got = [r \in Runs |-> [tables |-> NoResult, rels |-> NoResult]]
    /\ out = [r \in Runs |-> <<>>]
    /\ afault = [r \in Runs |-> NoFault]

\* the result file before a run: absent, or left by an earlier run of the script
InitFile ==
    file \in {NoFile, FileOf(Earlier, Response("rows", Payload(RELATIONSHIPS_QUERY)))}

Fail(r, fault) ==
    /\ apc' = [apc EXCEPT ![r] = "failed"]
    /\ afault' = [afault EXCEPT ![r] = fault]

\* lines 76-78
PrintHeader(r) ==
    /\ apc[r] = "start"
    /\ out' = [out EXCEPT ![r] = @ \o HeaderLines]
    /\ apc' = [apc EXCEPT ![r] = "invoke"]
    /\ UNCHANGED <<fixture, file, stage, sent, result, got, afault>>
    /\ UNCHANGED bvars

\* lines 53-65: the aws process, whose exit status nobody looks at
Invoke(r) ==
    /\ apc[r] = "invoke"
    /\ LET payload == Payload(QueryOf(stage[r]))
       IN  \/ \* the command cannot be started: subprocess.run raises
              /\ Fail(r, "FileNotFoundError")
              /\ UNCHANGED <<file, sent, result>>
           \/ \* the command fails before it writes (credentials, network)
              /\ sent' = [sent EXCEPT ![r] = Append(@, payload)]
              /\ result' = [result EXCEPT ![r] = 255]
              /\ apc' = [apc EXCEPT ![r] = "read"]
              /\ UNCHANGED <<file, afault>>
           \/ \* the command writes the function's response
              /\ \E outcome \in WritingOutcomes :
                    file' = FileOf(Invocation(r, stage[r]), Response(outcome, payload))
              /\ sent' = [sent EXCEPT ![r] = Append(@, payload)]
              /\ result' = [result EXCEPT ![r] = 0]
              /\ apc' = [apc EXCEPT ![r] = "read"]
              /\ UNCHANGED afault
    /\ UNCHANGED <<fixture, stage, got, out>>
    /\ UNCHANGED bvars

\* lines 67-72
Read(r) ==
    /\ apc[r] = "read"
    /\ LET res == ReadResult(file)
       IN  IF res.ok
           THEN /\ got' = [got EXCEPT ![r][stage[r]] =
                              [rows |-> res.rows, by |-> file.by, returned |-> TRUE]]
                /\ apc' = [apc EXCEPT ![r] = "render"]
                /\ UNCHANGED afault
           ELSE /\ Fail(r, res.fault)
                /\ UNCHANGED got
    /\ UNCHANGED <<fixture, file, stage, sent, result, out>>
    /\ UNCHANGED bvars

\* lines 84-94
RenderTables(r) ==
    /\ apc[r] = "render"
    /\ stage[r] = "tables"
    /\ LET res == TableLines(got[r].tables.rows)
       IN  /\ out' = [out EXCEPT ![r] = @ \o res.lines]
           /\ IF res.ok
              THEN /\ apc' = [apc EXCEPT ![r] = "invoke"]
                   /\ stage' = [stage EXCEPT ![r] = "rels"]
                   /\ UNCHANGED afault
              ELSE /\ Fail(r, "KeyError")
                   /\ UNCHANGED stage
    /\ UNCHANGED <<fixture, file, sent, result, got>>
    /\ UNCHANGED bvars

\* lines 100-106
RenderRelationships(r) ==
    /\ apc[r] = "render"
    /\ stage[r] = "rels"
    /\ LET res == RelationshipLines(got[r].rels.rows)
       IN  IF res.ok
           THEN /\ out' = [out EXCEPT ![r] = @ \o res.lines \o <<ClosingFence>>]
                /\ apc' = [apc EXCEPT ![r] = "done"]
                /\ UNCHANGED afault
           ELSE /\ out' = [out EXCEPT ![r] = @ \o res.lines]
                /\ Fail(r, "KeyError")
    /\ UNCHANGED <<fixture, file, stage, sent, result, got>>
    /\ UNCHANGED bvars

NextA ==
    \E r \in Runs :
        \/ PrintHeader(r)
        \/ Invoke(r)
        \/ Read(r)
        \/ RenderTables(r)
        \/ RenderRelationships(r)

\* ---- the specifications ----

\* Script B not started
IdleB ==
    /\ envfile = [user |-> Unset, password |-> Unset, host |-> Unset,
                  hostaddr |-> Unset, port |-> Unset, dbname |-> Unset]
    /\ kwargs = [unset |-> Unset]
    /\ bpc = "absent"
    /\ conn = "unbound"
    /\ btrace = <<>>
    /\ pending = NoFault
    /\ suppressed = <<>>

\* no run of Script A
IdleA ==
    /\ fixture = [tables |-> NoTables, rels |-> NoRelationships]
    /\ file = NoFile
    /\ InitRuns({})

\* two runs of Script A on one machine
Init ==
    /\ fixture \in SmallFixtures
    /\ InitFile
    /\ InitRuns(Runs)
    /\ IdleB

Spec == Init /\ [][NextA]_vars

\* one run of Script A against a fixture
InitFixture ==
    /\ fixture \in RichFixtures
    /\ InitFile
    /\ InitRuns({1})
    /\ IdleB

SpecFixture == InitFixture /\ [][NextA]_vars

\* one run of Script B
InitScriptB == InitB /\ IdleA

SpecB == InitScriptB /\ [][NextB]_vars

(***************************************************************************)
(*                     Properties of Script B                              *)
(***************************************************************************)

\* the events of btrace with operation op
Events(op) == SelectSeq(btrace, LAMBDA e : e.op = op)
Printed(text) == \E i \in 1..Len(btrace) : btrace[i] = PrintEv(text)
Happened(op) == Events(op) # <<>>
CloseAttempts == Len(Events("close")) + Len(Events("close_failed"))

\* C3: when a connection was opened, its close is attempted exactly once, at
\* the end of the procedure and not before, whether the query succeeded or
\* faulted; a close that fails is suppressed and leaves the outcome as the
\* query left it; "Connection closed." is printed exactly when the close
\* succeeded.
C3_CloseOnceBestEffort ==
    Happened("connect") =>
        /\ CloseAttempts = IF bpc = "end" THEN 1 ELSE 0
        /\ bpc = "end" =>
              pending = IF Happened("execute_failed") THEN "DatabaseError" ELSE NoFault
        /\ Happened("close_failed") => suppressed = <<"InterfaceError">>
        /\ Printed("Connection closed.") <=> Happened("close")
        /\ Happened("close") => btrace[Len(btrace)] = PrintEv("Connection closed.")

\* the close failed while the fault of the query was pending
C3_Witness ==
    /\ bpc = "end"
    /\ Happened("connect")
    /\ Happened("execute_failed")
    /\ Happened("close_failed")
    /\ pending = "DatabaseError"

\* C4: when the connection attempt fails, the connection fault is the fault
\* that terminates the script: no success message, no query, no close message,
\* and the cleanup, which finds conn unbound, neither replaces nor swallows it.
C4_ConnectFaultPropagates ==
    Happened("connect_failed") =>
        /\ pending = "OperationalError"
        /\ ~Printed("Connection successful!")
        /\ ~Happened("execute") /\ ~Happened("execute_failed")
        /\ ~Printed("Connection closed.")
        /\ CloseAttempts = 0
        /\ conn = "unbound"
        /\ bpc \in {"finally", "end"}
        /\ bpc = "end" => suppressed = <<"NameError">>

\* invalid credentials, the script over
C4_Witness ==
    /\ bpc = "end"
    /\ ~CredentialsValid(kwargs)
    /\ Happened("connect_failed")
    /\ suppressed = <<"NameError">>

\* btrace without the operations outside ops
Only(ops) == SelectSeq(btrace, LAMBDA e : e.op \in ops)

\* C5: when the connection and the query succeed, connect, the success
\* message, the query, the timestamp and the close happen in this order, once
\* each; the success message never comes without a successful connect before
\* it, and comes before the query is run.
C5_SuccessOrder ==
    /\ (bpc = "end" /\ Happened("connect") /\ Happened("execute")) =>
          /\ Only({"connect", "execute", "close", "close_failed"})
                \in { <<Call("connect"), [op |-> "execute", arg |-> "SELECT NOW();"],
                        Call(c)>> : c \in {"close", "close_failed"} }
          /\ SelectSeq(btrace, LAMBDA e : e.op \in {"connect", "print", "execute"}
                                          /\ e.arg # "Connection closed.")
                = <<Call("connect"), PrintEv("Connection successful!"),
                    [op |-> "execute", arg |-> "SELECT NOW();"],
                    PrintEv("Current Time: (timestamp,)")>>
          /\ \A i \in 1..Len(btrace) :
                btrace[i].op \in {"close", "close_failed"} =>
                    \E j \in 1..(i - 1) : btrace[j] = PrintEv("Current Time: (timestamp,)")
    /\ \A i \in 1..Len(btrace) :
          btrace[i] = PrintEv("Connection successful!") =>
              /\ \E j \in 1..(i - 1) : btrace[j] = Call("connect")
              /\ \A j \in 1..i : btrace[j].op # "execute"

\* the whole procedure succeeded
C5_Witness ==
    /\ bpc = "end"
    /\ conn = "closed"
    /\ pending = NoFault
    /\ Printed("Current Time: (timestamp,)")

(***************************************************************************)
(*                     Properties of Script A                              *)
(***************************************************************************)

Queries == {"tables", "rels"}

IsEntityHead(line) == Len(line) = 3 /\ line[1] = "  " /\ line[3] = " {"
IsEntityEnd(line) == line = <<"  }">>
IsColumnLine(line) == Len(line) >= 1 /\ line[1] = "    "
IsRelationshipLine(line) == Len(line) = 6 /\ line[3] = " ||--o{ "

EntityHeads(r) == SelectSeq(out[r], IsEntityHead)
EntityEnds(r) == SelectSeq(out[r], IsEntityEnd)
RelationshipLinesOf(r) == SelectSeq(out[r], IsRelationshipLine)

\* the loop over the tables has run to its end
TablesRendered(r) == stage[r] = "rels"

\* in every prefix of the output at most one entity block is open
BlocksPaired(r) ==
    \A k \in 0..Len(out[r]) :
        Len(SelectSeq(SubSeq(out[r], 1, k), IsEntityHead))
            - Len(SelectSeq(SubSeq(out[r], 1, k), IsEntityEnd)) \in {0, 1}

\* C1 (as amended): once the tables are rendered the output holds exactly one
\* entity block per row of the response, in the order of the rows, each named
\* after its row; a table name that occurs in k rows gets k blocks.
C1_OneBlockPerRow ==
    \A r \in Runs :
        TablesRendered(r) =>
            LET rows == got[r].tables.rows
            IN  /\ Len(EntityHeads(r)) = Len(rows)
                /\ Len(EntityEnds(r)) = Len(rows)
                /\ BlocksPaired(r)
                /\ \A i \in 1..Len(rows) : EntityHeads(r)[i][2] = rows[i].table_name

\* C1 (as claimed): exactly one entity block per distinct table name of the
\* response.
C1_OneBlockPerDistinctName ==
    \A r \in Runs :
        TablesRendered(r) =>
            LET rows == got[r].tables.rows
                names == {rows[i].table_name : i \in 1..Len(rows)}
            IN  /\ \A n \in names :
                      Cardinality({i \in 1..Len(EntityHeads(r)) :
                                      EntityHeads(r)[i][2] = n}) = 1
                /\ Len(EntityHeads(r)) = Cardinality(names)

\* a response in which one table name occurs in two rows has been rendered
C1_Witness ==
    /\ TablesRendered(1)
    /\ Len(got[1].tables.rows) = 2
    /\ got[1].tables.rows[1].table_name = got[1].tables.rows[2].table_name
    /\ Len(EntityHeads(1)) = 2

\* the line of a foreign key, as the claim writes it
C2_Line(rel) ==
    <<"  ", rel.to_table, " ||--o{ ", rel.from_table, " : ", rel.from_column>>

\* C2 (as amended): a completed run prints exactly one relationship line
\* "to_table ||--o{ from_table : from_column" per row of the response, in the
\* order of the rows; a foreign key that occurs in k rows gets k lines.
C2_OneLinePerRow ==
    \A r \in Runs :
        apc[r] = "done" =>
            LET rows == got[r].rels.rows
            IN  /\ Len(RelationshipLinesOf(r)) = Len(rows)
                /\ \A i \in 1..Len(rows) : RelationshipLinesOf(r)[i] = C2_Line(rows[i])

\* C2 (as claimed): exactly one relationship line per distinct foreign key of
\* the response.
C2_OneLinePerDistinctKey ==
    \A r \in Runs :
        apc[r] = "done" =>
            LET rows == got[r].rels.rows
                keys == {rows[i] : i \in 1..Len(rows)}
            IN  /\ \A k \in keys :
                      Cardinality({i \in 1..Len(RelationshipLinesOf(r)) :
                                      RelationshipLinesOf(r)[i] = C2_Line(k)}) = 1
                /\ Len(RelationshipLinesOf(r)) = Cardinality(keys)

\* a response that repeats a row has been rendered
C2_Witness ==
    /\ apc[1] = "done"
    /\ Len(got[1].rels.rows) = 2
    /\ got[1].rels.rows[1] = got[1].rels.rows[2]
    /\ Len(RelationshipLinesOf(1)) = 2

\* the column descriptors of the rows, in the order they are rendered
RECURSIVE ColumnsIn(_)
ColumnsIn(rows) ==
    IF rows = <<>> THEN <<>> ELSE ColumnsOf(Head(rows)) \o ColumnsIn(Tail(rows))

C7_IsPk(col) == "is_pk" \in DOMAIN col /\ col.is_pk = Bool(TRUE)

\* "type name", then " PK" for a primary key, then " NOT NULL" if notnull
C7_Line(col, notnull) ==
    <<"    ", col.type, " ", col.column>>
        \o (IF C7_IsPk(col) THEN <<" PK">> ELSE <<>>)
        \o (IF notnull THEN <<" NOT NULL">> ELSE <<>>)

\* nullable in either representation of the data model
C7_Nullable(col) == col.nullable \in {Str("YES"), Bool(TRUE)}

\* C7 (as amended): the column line is "type name", then " PK" exactly when
\* the primary-key flag is true, then " NOT NULL" exactly when the nullability
\* is not the string 'YES'. That is the column's nullability for 'YES'/'NO';
\* a boolean nullability, true or false, is always rendered NOT NULL.
C7_ColumnLineFormat ==
    \A r \in Runs :
        TablesRendered(r) =>
            LET cols == ColumnsIn(got[r].tables.rows)
                lines == SelectSeq(out[r], IsColumnLine)
            IN  /\ Len(lines) = Len(cols)
                /\ \A i \in 1..Len(cols) :
                      lines[i] = C7_Line(cols[i], cols[i].nullable # Str("YES"))

\* C7 (as claimed): " NOT NULL" exactly when the column is not nullable, for
\* booleans as for 'YES'/'NO'.
C7_ColumnLineEveryRepresentation ==
    \A r \in Runs :
        TablesRendered(r) =>
            LET cols == ColumnsIn(got[r].tables.rows)
                lines == SelectSeq(out[r], IsColumnLine)
            IN  /\ Len(lines) = Len(cols)
                /\ \A i \in 1..Len(cols) :
                      lines[i] = C7_Line(cols[i], ~C7_Nullable(cols[i]))

\* a column whose nullability is the boolean true has been rendered
C7_Witness ==
    /\ TablesRendered(1)
    /\ \E i \in 1..Len(ColumnsIn(got[1].tables.rows)) :
          /\ ColumnsIn(got[1].tables.rows)[i].nullable = Bool(TRUE)
          /\ C7_IsPk(ColumnsIn(got[1].tables.rows)[i])
    /\ SelectSeq(out[1], IsColumnLine) # <<>>

\* the rows a response holds: those of the JSON in its body, if any
C8_RowsIn(f) ==
    IF "body" \in DOMAIN f.resp
    THEN IF "rows" \in DOMAIN f.resp.body.val THEN f.resp.body.val.rows ELSE <<>>
    ELSE <<>>

C8_Sent(r, i) ==
    [valid |-> TRUE,
     val |-> [sql |-> IF i = 1 THEN TABLES_QUERY ELSE RELATIONSHIPS_QUERY]]

\* C8: run_query sends the payload {"sql": query}; it returns the rows of the
\* JSON in the body of the response, the empty list when that JSON has no rows
\* and the empty list when the response has no body, failing only on a missing
\* file or a body that is no JSON; with the empty list for both queries the
\* output is the header, the opening fence, erDiagram and the closing fence.
C8_RunQueryContract ==
    \A r \in Runs :
        /\ \A i \in 1..Len(sent[r]) : sent[r][i] = C8_Sent(r, i)
        /\ apc[r] = "render" => got[r][stage[r]].rows = C8_RowsIn(file)
        /\ (/\ apc[r] = "failed"
            /\ afault[r] \in {"FileNotFoundError", "JSONDecodeError"}
            /\ Len(sent[r]) = (IF stage[r] = "tables" THEN 1 ELSE 2))
              => \/ ~file.exists
                 \/ "body" \in DOMAIN file.resp /\ ~file.resp.body.valid
        /\ (apc[r] = "done" /\ got[r].tables.rows = <<>> /\ got[r].rels.rows = <<>>)
              => out[r] = << <<"# Database Schema Diagram">>, <<>>,
                             <<Fence, "mermaid">>, <<"erDiagram">>, <<Fence>> >>

\* a run that got the empty list twice, the second time for want of a body
C8_Witness ==
    /\ apc[1] = "done"
    /\ got[1].tables.rows = <<>>
    /\ got[1].rels.rows = <<>>
    /\ file.exists /\ file.by = Invocation(1, "rels")
    /\ "body" \notin DOMAIN file.resp
    /\ fixture.tables # <<>>

\* C6 (as claimed): run_query returns normally only after an invocation that
\* exited with status 0 and wrote a response with a body that holds rows;
\* otherwise the run ends in a fault and prints no completed diagram.
C6_QueryFailureTerminates ==
    \A r \in Runs :
        /\ apc[r] = "render" =>
              /\ result[r] = 0
              /\ "body" \in DOMAIN file.resp
              /\ "rows" \in DOMAIN file.resp.body.val
        /\ apc[r] = "done" => result[r] = 0

\* the fence lines printed so far
OpeningFences(r) == SelectSeq(out[r], LAMBDA l : l = <<Fence, "mermaid">>)
ClosingFences(r) == SelectSeq(out[r], LAMBDA l : l = ClosingFence)

\* C9 (as claimed): nothing is printed before the first invocation is made and
\* parsed; the tables query is invoked before the relationships query; every
\* entity block comes before every relationship line; and a run that is over,
\* normally or by a fault, has printed the closing fence if it printed the
\* opening one.
C9_OutputOrderAndClosure ==
    \A r \in Runs :
        /\ out[r] # <<>> => got[r].tables.returned
        /\ \A i \in 1..Len(sent[r]) : sent[r][i] = C8_Sent(r, i)
        /\ \A i, j \in 1..Len(out[r]) :
              (IsRelationshipLine(out[r][i])
                 /\ (IsEntityHead(out[r][j]) \/ IsEntityEnd(out[r][j]))) => j < i
        /\ apc[r] \in {"done", "failed"} =>
              (OpeningFences(r) # <<>> => ClosingFences(r) # <<>>)

\* C10 (as claimed): what a run_query call returns is the response its own
\* invocation wrote to the result file.
C10_OwnResponse ==
    \A r \in Runs : \A q \in Queries :
        got[r][q].returned => got[r][q].by = Invocation(r, q)

====
